---- MODULE Spec2Model ----
(***************************************************************************)
(* Model of the Lighter futures rebalancing service:                       *)
(*   app/api/orders.py          execute_order_with_retry, alert_to_line_bot*)
(*   app/services/execution.py  execute_order and its helpers              *)
(*                                                                         *)
(* One request is served by the retry wrapper, which runs execute_order up *)
(* to MAX_RETRIES times.  execute_order is split at its await points: one  *)
(* action per collaborator call (secrets, account/market data, gateway).   *)
(*                                                                         *)
(* Numbers.  Python floats are modelled by exact decimals:                 *)
(*   coin amounts   integers, in units of 10^-UnitDec coin ("atoms")       *)
(*   prices, USD    integers, in USD                                       *)
(*   OrderIn.quantity (fraction of margin)  integers, in units of 1/QDen   *)
(* Binary rounding noise of float arithmetic is not represented; the input *)
(* sets below are such that every division of the planner is exact.        *)
(*                                                                         *)
(* secret_data.  fetch_account_index and fetch_account read the name       *)
(* secret_data from the module namespace, where no code of the repository  *)
(* binds it (execute_order binds a local of that name only).  The initial  *)
(* state chooses between "unbound", the module as shipped, in which every  *)
(* run ends at fetch_account_index with a NameError, and "bound", the      *)
(* namespace after the name has been bound from outside, in which the      *)
(* steps after the account index fetch are reached.                        *)
(***************************************************************************)
EXTENDS Integers, Sequences, FiniteSets, TLC

VARIABLES
    secret_data_global, \* is the module-level name secret_data bound ("bound"/"unbound")
    payload,            \* the OrderRequest being served
    quantization,       \* the quantization under study: input and result
    other_calls,        \* gateway mutations of a concurrent request of the account
    wpc,                \* wrapper position: "loop","run","SUCCESS","FAILED"
    retry_count,        \* execute_order_with_retry.retry_count
    runs,               \* number of execute_order invocations so far
    alerts,             \* alert_to_line_bot messages sent, in order
    returned,           \* value returned / exception raised to the caller
    deliveries,         \* per alert of the last wrapper step, its LINE push requests
    pc,                 \* position inside execute_order
    outcome,            \* how the current execute_order invocation ended
    calls,              \* collaborator calls of the current run, in order
    signer_client,      \* "none" / "open" / "closed"
    future_market_price,\* symbol -> last trade price (0 = key absent)
    order_books,        \* future_exchange_info.order_books
    future_account,     \* account snapshot of the current run
    order_summary,      \* Intents (order_part_one + order_part_two)
    final_order1,       \* Batch A, quantized
    final_order2,       \* Batch B, quantized
    idx,                \* loop index of the running adjuster / executor loop
    subs,               \* create_market_order calls of the current run
    prior_indices       \* client_order_index values used by earlier runs

vars == << secret_data_global, payload, quantization, other_calls, wpc, retry_count, runs, alerts,
           returned, deliveries, pc, outcome, calls, signer_client, future_market_price,
           order_books, future_account, order_summary, final_order1,
           final_order2, idx, subs, prior_indices >>

-----------------------------------------------------------------------------
(* Program constants *)

MAX_RETRIES == 3
MAX_LEVERAGE == 5
BASE_INDEX == 1000
SLIPPAGE_PCT == 3
ROUND_DIGITS == 8
HAIRCUT_PCT == 98
ISOLATED_MARGIN_MODE == 1
CROSS_MARGIN_MODE == 0

(* Scales of the decimal representation *)
UnitDec == 2
QDen == 10
Atom == 10 ^ UnitDec

(* Bounds of the explored inputs *)
MaxReqLen == 2

Symbols == {"BTC", "ETH"}
None == "None"

-----------------------------------------------------------------------------
(* Arithmetic helpers *)

Abs(x) == IF x < 0 THEN -x ELSE x

\* Python round() of the non-negative rational n/d to an integer (half to even)
RoundHalfEven(n, d) ==
    LET q == n \div d
        r == n % d
    IN  IF 2 * r < d THEN q
        ELSE IF 2 * r > d THEN q + 1
        ELSE IF q % 2 = 0 THEN q ELSE q + 1

\* sum(abs(o.quantity) for o in args.order)
RECURSIVE SumAbsQuantity(_)
SumAbsQuantity(s) ==
    IF s = << >> THEN 0
    ELSE Abs(Head(s).quantity) + SumAbsQuantity(Tail(s))

\* next((x for x in s if x.symbol == sym), None) is not None
HasSymbol(s, sym) == \E i \in 1..Len(s) : s[i].symbol = sym

\* next((x for x in s if x.symbol == sym), None), when it is not None
FirstBySymbol(s, sym) ==
    s[CHOOSE i \in 1..Len(s) :
          /\ s[i].symbol = sym
          /\ \A j \in 1..(i-1) : s[j].symbol # sym]

-----------------------------------------------------------------------------
(* Exceptions.  status_code = 0 marks an exception that is not an           *)
(* HTTPException (KeyError, ZeroDivisionError, AttributeError).            *)

Exc(cls, status_code, detail, symbol, cause) ==
    [cls |-> cls, status_code |-> status_code, detail |-> detail,
     symbol |-> symbol, cause |-> cause]

HTTPException(status_code, detail, symbol, cause) ==
    Exc("HTTPException", status_code, detail, symbol, cause)

Unexpected(cls, symbol) == Exc(cls, 0, cls, symbol, cls)

NoExc == Exc(None, 0, None, None, None)

IsHTTPException(e) == e.cls = "HTTPException"

-----------------------------------------------------------------------------
(* Input validation, execute_order step 1 *)

\* the detail of the HTTPException raised by the validation, or None
ValidationFailure(args) ==
    IF SumAbsQuantity(args.order) > QDen
    THEN "Sum input order > 100%"
    ELSE IF \E i \in 1..Len(args.order) : args.order[i].leverage > MAX_LEVERAGE
    THEN "Leverage factor can't be more than 5"
    ELSE None

-----------------------------------------------------------------------------
(* Quantization *)

\* step_size = 1 / (10 ** order_book.supported_size_decimals), in atoms
StepSize(size_decimals) == 10 ^ (UnitDec - size_decimals)

\* round(rem/step, 8) for 0 <= rem < step, in units of 10^-8
Round8(rem, step) ==
    LET unit == 10 ^ ROUND_DIGITS
    IN  IF step <= unit THEN rem * (unit \div step)
        ELSE RoundHalfEven(rem, step \div unit)

\* round(math.floor(round(abs(coinAmount) / stepSize, 8)) * stepSize, sizeDecimals)
quantizeQuantity(raw, stepSize, sizeDecimals) ==
    LET whole   == raw \div stepSize
        rem     == raw % stepSize
        floored == IF Round8(rem, stepSize) = 10 ^ ROUND_DIGITS
                   THEN whole + 1 ELSE whole
    IN  floored * stepSize

\* "BUY" if r["coinAmount"] >= 0 else "SELL"
Side(coinAmount) == IF coinAmount >= 0 THEN "BUY" ELSE "SELL"

\* one element of final_order1 / final_order2
FinalOrder(r) ==
    [symbol        |-> r.symbol,
     side          |-> Side(r.coinAmount),
     quantity      |-> quantizeQuantity(Abs(r.coinAmount), r.stepSize, r.sizeDecimals),
     marketPrice   |-> r.marketPrice,
     sizeDecimals  |-> r.sizeDecimals,
     priceDecimals |-> r.priceDecimals]

\* faulty variant: the Intents keep the order of order_summary
SortByExecuteFirst_Unsorted(s) == s

\* sorted(..., key=lambda x: x["executeFirst"], reverse=True): stable
SortByExecuteFirst(s) ==
    SelectSeq(s, LAMBDA o : o.executeFirst = 1) \o
    SelectSeq(s, LAMBDA o : o.executeFirst # 1)

MapFinalOrder(s) == [i \in 1..Len(s) |-> FinalOrder(s[i])]

\* faulty variant: the minimum order size is applied to closing Intents too
InBatchA_SizeFiltered(order) ==
    /\ Abs(order.coinAmount) >= order.minOrderSize
    /\ order.closePosition = "Y"

\* the filter of final_order1
InBatchA(order) ==
    /\ Abs(order.coinAmount) > 0
    /\ order.closePosition = "Y"

\* the filter of final_order2
InBatchB(order) ==
    /\ (Abs(order.coinAmount) \div order.stepSize) * order.stepSize >= order.minOrderSize
    /\ Abs(order.coinAmount) * order.marketPrice >= order.minNotionalSize * Atom
    /\ order.closePosition = "N"

BuildFinalOrder1(summary) ==
    MapFinalOrder(SortByExecuteFirst(SelectSeq(summary, InBatchA)))

BuildFinalOrder2(summary) ==
    MapFinalOrder(SortByExecuteFirst(SelectSeq(summary, InBatchB)))

-----------------------------------------------------------------------------
(* Planner: execute_order steps 5 and 6 *)

\* total_margin_balance = float(total_asset_value) * 0.98
TotalMarginBalance(account) == (account.total_asset_value * HAIRCUT_PCT) \div 100

\* int(100 / float(pos.initial_margin_fraction)), initial_margin_fraction # 0
LeverageOf(pos) == 100 \div pos.initial_margin_fraction

\* float(pos.position) * (1 if pos.sign == 1 else -1)
SignedQuantity(pos) == pos.position * (IF pos.sign = 1 THEN 1 ELSE -1)

\* [pos for pos in positions if float(pos.position) != 0]
CurrentOpenPositions(account) ==
    SelectSeq(account.positions, LAMBDA p : p.position # 0)

\* the exception raised while building one element of
\* current_open_position_percentage, or None
OpenPositionError(pos, prices) ==
    IF pos.symbol \notin DOMAIN prices THEN "KeyError"
    ELSE IF pos.initial_margin_fraction = 0 THEN "ZeroDivisionError"
    ELSE IF LeverageOf(pos) = 0 THEN "ZeroDivisionError"
    ELSE None

\* one element of current_open_position_percentage; quantityPercentage is the
\* rational n / (d * Atom)
OpenPositionPercentage(pos, prices, tmb) ==
    [symbol   |-> pos.symbol,
     quantity |-> SignedQuantity(pos),
     quantityPercentage |->
         [n |-> SignedQuantity(pos) * prices[pos.symbol],
          d |-> LeverageOf(pos) * tmb],
     leverage |-> LeverageOf(pos)]

\* ((quantityPercentage * total_margin_balance) / market_price) * leverage, atoms
CurrentCoinExposure(cp, tmb, market_price) ==
    LET num == cp.quantityPercentage.n * tmb * cp.leverage
        den == cp.quantityPercentage.d * market_price
    IN  IF num >= 0 THEN num \div den ELSE -((-num) \div den)

\* ((new_position.quantity * total_margin_balance) / market_price) * leverage, atoms
TargetCoinExposure(np, tmb, market_price) ==
    LET num == np.quantity * tmb * np.leverage * Atom
        den == QDen * market_price
    IN  IF num >= 0 THEN num \div den ELSE -((-num) \div den)

\* the fields every Intent copies from its order book
IntentOf(symbol, coinAmount, ob, market_price, leverage, closePosition, executeFirst) ==
    [symbol          |-> symbol,
     coinAmount      |-> coinAmount,
     minOrderSize    |-> ob.min_base_amount,
     minNotionalSize |-> ob.min_quote_amount,
     stepSize        |-> StepSize(ob.supported_size_decimals),
     sizeDecimals    |-> ob.supported_size_decimals,
     priceDecimals   |-> ob.supported_price_decimals,
     marketPrice     |-> market_price,
     leverage        |-> leverage,
     closePosition   |-> closePosition,
     executeFirst    |-> executeFirst]

\* the exception raised by one iteration of the order_part_one loop, or None
PartOneError(cp, books) ==
    IF ~HasSymbol(books, cp.symbol) THEN "AttributeError" ELSE None

\* one element of order_part_one
PartOneIntent(cp, args, prices, books, tmb) ==
    LET market_price == prices[cp.symbol]
        order_book   == FirstBySymbol(books, cp.symbol)
    IN  IF \/ ~HasSymbol(args.order, cp.symbol)
           \/ FirstBySymbol(args.order, cp.symbol).quantity = 0
        THEN IntentOf(cp.symbol, -cp.quantity, order_book, market_price,
                      cp.leverage, "Y", 0)
        ELSE LET new_position == FirstBySymbol(args.order, cp.symbol)
                 target  == TargetCoinExposure(new_position, tmb, market_price)
                 current == CurrentCoinExposure(cp, tmb, market_price)
             IN  IntentOf(cp.symbol, target - current, order_book, market_price,
                          new_position.leverage, "N",
                          IF Abs(current) - Abs(target) > 0 THEN 1 ELSE 0)

\* the entries of args.order that the order_part_two loop does not skip
NewSymbols(args, cops) ==
    SelectSeq(args.order, LAMBDA np : ~HasSymbol(cops, np.symbol))

\* the exception raised by one iteration of the order_part_two loop, or None
PartTwoError(np, prices, books) ==
    IF ~HasSymbol(books, np.symbol) THEN "AttributeError"
    ELSE IF np.symbol \notin DOMAIN prices THEN "ZeroDivisionError"
    ELSE IF prices[np.symbol] = 0 THEN "ZeroDivisionError"
    ELSE None

\* one element of order_part_two
PartTwoIntent(np, prices, books, tmb) ==
    LET market_price == prices[np.symbol]
        order_book   == FirstBySymbol(books, np.symbol)
    IN  IntentOf(np.symbol, TargetCoinExposure(np, tmb, market_price), order_book,
                 market_price, np.leverage,
                 IF np.quantity = 0 THEN "Y" ELSE "N", 0)

\* the first element of s that is not None, or None
FirstRaised(s) ==
    IF \E i \in 1..Len(s) : s[i].cls # None
    THEN s[CHOOSE i \in 1..Len(s) :
               /\ s[i].cls # None
               /\ \A j \in 1..(i-1) : s[j].cls = None]
    ELSE [cls |-> None, symbol |-> None]

\* steps 5 and 6 of execute_order: [error, summary, current]
Plan(args, prices, books, account) ==
    LET tmb   == TotalMarginBalance(account)
        opens == CurrentOpenPositions(account)
        e1    == FirstRaised([i \in 1..Len(opens) |->
                     [cls |-> OpenPositionError(opens[i], prices),
                      symbol |-> opens[i].symbol]])
    IN  IF e1.cls # None
        THEN [error |-> Unexpected(e1.cls, e1.symbol), summary |-> << >>]
        ELSE
        LET cops == [i \in 1..Len(opens) |->
                        OpenPositionPercentage(opens[i], prices, tmb)]
            e2   == FirstRaised([i \in 1..Len(cops) |->
                        [cls |-> PartOneError(cops[i], books),
                         symbol |-> cops[i].symbol]])
        IN  IF e2.cls # None
            THEN [error |-> Unexpected(e2.cls, e2.symbol), summary |-> << >>]
            ELSE
            LET news == NewSymbols(args, cops)
                e3   == FirstRaised([i \in 1..Len(news) |->
                            [cls |-> PartTwoError(news[i], prices, books),
                             symbol |-> news[i].symbol]])
            IN  IF e3.cls # None
                THEN [error |-> Unexpected(e3.cls, e3.symbol), summary |-> << >>]
                ELSE [error |-> NoExc,
                      summary |->
                          [i \in 1..Len(cops) |->
                              PartOneIntent(cops[i], args, prices, books, tmb)]
                          \o
                          [i \in 1..Len(news) |->
                              PartTwoIntent(news[i], prices, books, tmb)]]

-----------------------------------------------------------------------------
(* Market order executor: the pure part of one loop iteration *)

\* build_market_id_map(order_books).get(symbol) is not None
HasMarketId(books, symbol) == HasSymbol(books, symbol)

MarketId(books, symbol) == FirstBySymbol(books, symbol).market_id

\* int(round(float(order["quantity"]) * (10 ** size_decimals)))
BaseAmount(order) ==
    RoundHalfEven(order.quantity * (10 ^ order.sizeDecimals), Atom)

\* int(round(worst_price * (10 ** price_decimals)))
AvgExecutionPrice(order) ==
    LET factor == IF order.side = "BUY" THEN 100 + SLIPPAGE_PCT
                                        ELSE 100 - SLIPPAGE_PCT
    IN  RoundHalfEven(order.marketPrice * factor * (10 ^ order.priceDecimals), 100)

\* client_order_index=base_index + i, with the default base_index of both calls
ClientOrderIndex(batch, i) == BASE_INDEX + i

\* the reduce_only argument of signer_client.create_market_order: the call
\* passes market_index, client_order_index, base_amount, avg_execution_price
\* and is_ask; the parameter reduce_only of execute_final_market_orders is
\* used in the printed message only
ReduceOnlyArgument(reduce_only) == "not passed"

\* the arguments of signer_client.create_market_order for final_orders[i+1]
MarketOrderCall(batch, reduce_only, final_orders, i, books, result) ==
    LET order == final_orders[i + 1]
    IN  [batch               |-> batch,
         reduce_only         |-> ReduceOnlyArgument(reduce_only),
         symbol              |-> order.symbol,
         quantity            |-> order.quantity,
         market_index        |-> MarketId(books, order.symbol),
         client_order_index  |-> ClientOrderIndex(batch, i),
         base_amount         |-> BaseAmount(order),
         avg_execution_price |-> AvgExecutionPrice(order),
         is_ask              |-> (order.side = "SELL"),
         result              |-> result]

\* faulty variant: only the responses of the second batch are inspected
HasError_SecondBatchOnly(submissions) ==
    \E i \in 1..Len(submissions) :
        submissions[i].batch = "B" /\ submissions[i].result = "code"

\* step 10: any acknowledged order whose response code is not 200
HasError(submissions) ==
    \E i \in 1..Len(submissions) : submissions[i].result = "code"

-----------------------------------------------------------------------------
(* Adjuster: the pure part of one loop iteration *)

\* next((p for p in future_account.accounts[0].positions if p.symbol == ...), None)
HasPosition(account, symbol) == HasSymbol(account.positions, symbol)

PositionOf(account, symbol) == FirstBySymbol(account.positions, symbol)

\* if pos and pos.margin_mode != signer_client.ISOLATED_MARGIN_MODE
NeedsIsolatedSwitch(order, account) ==
    /\ HasPosition(account, order.symbol)
    /\ PositionOf(account, order.symbol).margin_mode # ISOLATED_MARGIN_MODE

\* faulty variant: the leverage is set for every Intent
NeedsLeverageUpdate_Always(order, account) == TRUE

\* if current_leverage != order["leverage"], current_leverage None without position
NeedsLeverageUpdate(order, account) ==
    IF HasPosition(account, order.symbol)
    THEN LeverageOf(PositionOf(account, order.symbol)) # order.leverage
    ELSE TRUE

\* int(100 / float(pos.initial_margin_fraction)) raises ZeroDivisionError
LeverageRaises(account, symbol) ==
    /\ HasPosition(account, symbol)
    /\ PositionOf(account, symbol).initial_margin_fraction = 0

-----------------------------------------------------------------------------
(* The explored inputs: the request and the collaborators' answers *)

OrderIn(symbol, quantity, leverage) ==
    [symbol |-> symbol, quantity |-> quantity, leverage |-> leverage]

\* quantity in tenths of the margin; leverage 6 violates the limit of 5
OrderInSet ==
    { OrderIn(s, q, l) : s \in Symbols, q \in {0, 1, 6}, l \in {2, 6} }

\* requests of at most MaxReqLen entries, one per symbol
OrderLists ==
    { o \in UNION { [1..n -> OrderInSet] : n \in 0..MaxReqLen } :
        \A i, j \in 1..Len(o) : i # j => o[i].symbol # o[j].symbol }

Requests == { [account |-> "acct", order |-> o] : o \in OrderLists }

OrderBook(symbol, market_id, min_base, min_quote, size_decimals, price_decimals) ==
    [symbol |-> symbol, market_id |-> market_id,
     min_base_amount |-> min_base, min_quote_amount |-> min_quote,
     supported_size_decimals |-> size_decimals,
     supported_price_decimals |-> price_decimals]

\* BTC: step 0.1, minimum 0.2 coin and 150 USD; ETH: step 0.01, minimum 0.05 coin
BookBTC == OrderBook("BTC", 1, 20, 150, 1, 1)
BookETH == OrderBook("ETH", 0, 5, 10, 2, 2)

OrderBooksResponses ==
    { [kind |-> "raise", order_books |-> << >>],
      [kind |-> "data", order_books |-> << BookBTC, BookETH >>],
      [kind |-> "data", order_books |-> << BookBTC >>] }

ExchangeStatsResponses ==
    { [kind |-> "raise", prices |-> << >>],
      [kind |-> "empty", prices |-> << >>],
      [kind |-> "data", prices |-> [s \in {"BTC", "ETH"} |->
                                       IF s = "BTC" THEN 700 ELSE 98]],
      [kind |-> "data", prices |-> [s \in {"BTC"} |-> 700]] }

Position(symbol, position, sign, imf, margin_mode) ==
    [symbol |-> symbol, position |-> position, sign |-> sign,
     initial_margin_fraction |-> imf, margin_mode |-> margin_mode]

\* a long of 2 coins at leverage 2 in cross margin; a residue below the step size
BTCPositions == { Position("BTC", 200, 1, 50, CROSS_MARGIN_MODE),
                  Position("BTC", 5, 1, 50, ISOLATED_MARGIN_MODE) }

\* a short of 1 coin at leverage 1, isolated
ETHPositions == { Position("ETH", 100, -1, 100, ISOLATED_MARGIN_MODE) }

\* accounts with a position whose initial_margin_fraction is "0": an open
\* long, and a flat position listed after an open cross-margin long
ZeroMarginPositionLists ==
    { << Position("BTC", 200, 1, 0, CROSS_MARGIN_MODE) >>,
      << Position("BTC", 200, 1, 50, CROSS_MARGIN_MODE),
         Position("ETH", 0, 1, 0, CROSS_MARGIN_MODE) >> }

PositionLists ==
    { << >> } \cup { << b >> : b \in BTCPositions }
              \cup { << e >> : e \in ETHPositions }
              \cup { << b, e >> : b \in BTCPositions, e \in ETHPositions }
              \cup { << e, b >> : b \in BTCPositions, e \in ETHPositions }
              \cup ZeroMarginPositionLists

NoAccount == [kind |-> "none", total_asset_value |-> 0, positions |-> << >>]

AccountResponses ==
    { [kind |-> "raise", total_asset_value |-> 0, positions |-> << >>],
      [kind |-> "data", total_asset_value |-> 0, positions |-> << >>] }
    \cup { [kind |-> "data", total_asset_value |-> 1000, positions |-> p] :
             p \in PositionLists }

AccountIndexResponses == {"ok", "zero", "raise"}
SecretResponses == {"ok", "raise"}
UpdateLeverageResults == {"ok", "err", "raise"}
CreateMarketOrderResults == {"ok", "code", "none", "raise"}

-----------------------------------------------------------------------------
(* State *)

Call(fn, symbol, leverage) ==
    [fn |-> fn, symbol |-> symbol, leverage |-> leverage]

Running == [kind |-> "running", exc |-> NoExc]

NoReturn == [kind |-> "none", status |-> None, status_code |-> 0,
             detail |-> None, cause |-> None, account |-> None, attempt |-> 0]

wrapperVars == << wpc, retry_count, runs, alerts, returned, deliveries,
                  prior_indices >>
envVars == << secret_data_global, payload, quantization, other_calls >>
dataVars == << future_market_price, order_books, future_account,
               order_summary, final_order1, final_order2 >>

\* the locals of a fresh execute_order frame
FreshFrame ==
    /\ outcome' = Running
    /\ calls' = << >>
    /\ signer_client' = "none"
    /\ future_market_price' = << >>
    /\ order_books' = << >>
    /\ future_account' = NoAccount
    /\ order_summary' = << >>
    /\ final_order1' = << >>
    /\ final_order2' = << >>
    /\ idx' = 0
    /\ subs' = << >>

\* no quantization has been studied
NoQuantization ==
    [raw |-> 0, stepSize |-> 0, sizeDecimals |-> 0, quantity |-> 0]

\* no execute_order frame is running
InitialFrame ==
    /\ pc = "idle"
    /\ outcome = Running
    /\ calls = << >>
    /\ signer_client = "none"
    /\ future_market_price = << >>
    /\ order_books = << >>
    /\ future_account = NoAccount
    /\ order_summary = << >>
    /\ final_order1 = << >>
    /\ final_order2 = << >>
    /\ idx = 0
    /\ subs = << >>

\* the wrapper at its entry, no execute_order frame yet
AtEntry ==
    /\ InitialFrame
    /\ wpc = "loop"
    /\ retry_count = 0
    /\ runs = 0
    /\ alerts = << >>
    /\ returned = NoReturn
    /\ deliveries = << >>
    /\ prior_indices = {}

Init ==
    /\ secret_data_global \in {"unbound", "bound"}
    /\ payload \in Requests
    /\ quantization = NoQuantization
    /\ other_calls = << >>
    /\ AtEntry

\* execute_order raises e
Raise(e) ==
    /\ pc' = "done"
    /\ outcome' = [kind |-> "raised", exc |-> e]

\* execute_order returns its result
Return ==
    /\ pc' = "done"
    /\ outcome' = [kind |-> "ok", exc |-> NoExc]

-----------------------------------------------------------------------------
(* execute_order, one action per await point *)

\* secret_data = await initialize_aws_secret_manager_async(...)
initialize_aws_secret_manager_async ==
    /\ wpc = "run"
    /\ pc = "secret"
    /\ \E r \in SecretResponses :
         /\ calls' = Append(calls, Call("get_secret_value", None, 0))
         /\ IF r = "raise"
            THEN Raise(HTTPException(502, "Failed to fetch secret", None, "secrets"))
            ELSE pc' = "account_index" /\ outcome' = outcome
    /\ UNCHANGED << wrapperVars, envVars, dataVars, signer_client, idx, subs >>

\* account_index = await fetch_account_index(client), then the construction of
\* the signer client and the input validation (no await in between).
\* fetch_account_index reads the module-level name secret_data: unbound, the
\* NameError is raised before the account request is sent.
fetch_account_index ==
    /\ wpc = "run"
    /\ pc = "account_index"
    /\ IF secret_data_global = "unbound"
       THEN /\ Raise(HTTPException(502, "Failed to fetch account index",
                                   None, "NameError"))
            /\ UNCHANGED << calls, signer_client >>
       ELSE \E r \in AccountIndexResponses :
              /\ calls' = Append(calls, Call("account", None, 0))
              /\ IF r # "ok"
                 THEN /\ Raise(HTTPException(502, "Failed to fetch account index",
                                             None, r))
                      /\ UNCHANGED signer_client
                 ELSE /\ signer_client' = "open"
                      /\ IF ValidationFailure(payload) # None
                         THEN Raise(HTTPException(400, ValidationFailure(payload),
                                                  None, "validation"))
                         ELSE pc' = "stats" /\ outcome' = outcome
    /\ UNCHANGED << wrapperVars, envVars, dataVars, idx, subs >>

\* 2) resp = await fetch_exchange_stats(client)
fetch_exchange_stats ==
    /\ wpc = "run"
    /\ pc = "stats"
    /\ \E r \in ExchangeStatsResponses :
         /\ calls' = Append(calls, Call("exchange_stats", None, 0))
         /\ IF r.kind # "data"
            THEN /\ Raise(HTTPException(502, "Failed to fetch future market price",
                                        None, r.kind))
                 /\ UNCHANGED future_market_price
            ELSE /\ future_market_price' = r.prices
                 /\ pc' = "order_books"
                 /\ outcome' = outcome
    /\ UNCHANGED << wrapperVars, envVars, order_books, future_account,
                    order_summary, final_order1, final_order2,
                    signer_client, idx, subs >>

\* 3) future_exchange_info = await fetch_order_books(client)
fetch_order_books ==
    /\ wpc = "run"
    /\ pc = "order_books"
    /\ \E r \in OrderBooksResponses :
         /\ calls' = Append(calls, Call("order_books", None, 0))
         /\ IF r.kind # "data"
            THEN /\ Raise(HTTPException(502, "Failed to fetch future exchange info",
                                        None, r.kind))
                 /\ UNCHANGED order_books
            ELSE /\ order_books' = r.order_books
                 /\ pc' = "account"
                 /\ outcome' = outcome
    /\ UNCHANGED << wrapperVars, envVars, future_market_price, future_account,
                    order_summary, final_order1, final_order2,
                    signer_client, idx, subs >>

\* 4) future_account = await fetch_account(client), then steps 5 and 6 (planner)
fetch_account ==
    /\ wpc = "run"
    /\ pc = "account"
    /\ \E r \in AccountResponses :
         /\ calls' = Append(calls, Call("account", None, 0))
         /\ IF r.kind # "data"
            THEN /\ Raise(HTTPException(502, "Failed to fetch future account",
                                        None, r.kind))
                 /\ UNCHANGED << future_account, order_summary, idx >>
            ELSE IF TotalMarginBalance(r) = 0
            THEN /\ Raise(HTTPException(400, "Total margin balance is 0",
                                        None, "balance"))
                 /\ future_account' = r
                 /\ UNCHANGED << order_summary, idx >>
            ELSE LET plan == Plan(payload, future_market_price, order_books, r)
                 IN  /\ future_account' = r
                     /\ IF plan.error.cls # None
                        THEN /\ Raise(plan.error)
                             /\ UNCHANGED << order_summary, idx >>
                        ELSE /\ order_summary' = plan.summary
                             /\ idx' = 1
                             /\ pc' = "isolated"
                             /\ outcome' = outcome
    /\ UNCHANGED << wrapperVars, envVars, future_market_price, order_books,
                    final_order1, final_order2, signer_client, subs >>

\* faulty variant: the error of step 7 does not carry the symbol
MarginAdjustError_NoSymbol(symbol, cause) ==
    HTTPException(500, "Error executing leverage/margin updates", None, cause)

\* the wrapping of step 7: except Exception -> HTTPException(500, ...)
MarginAdjustError(symbol, cause) ==
    HTTPException(500, "Error executing leverage/margin updates", symbol, cause)

\* 7) one iteration of the loop of execute_isolated_orders
execute_isolated_orders ==
    /\ wpc = "run"
    /\ pc = "isolated"
    /\ IF idx > Len(order_summary)
       THEN /\ pc' = "leverage"
            /\ idx' = 1
            /\ UNCHANGED << outcome, calls >>
       ELSE LET order == order_summary[idx]
            IN  IF ~HasMarketId(order_books, order.symbol)
                THEN /\ Raise(MarginAdjustError(order.symbol, "Market ID not found"))
                     /\ UNCHANGED << idx, calls >>
                ELSE IF ~NeedsIsolatedSwitch(order, future_account)
                THEN /\ idx' = idx + 1
                     /\ UNCHANGED << pc, outcome, calls >>
                ELSE IF LeverageRaises(future_account, order.symbol)
                THEN /\ Raise(MarginAdjustError(order.symbol, "ZeroDivisionError"))
                     /\ UNCHANGED << idx, calls >>
                ELSE \E r \in UpdateLeverageResults :
                       LET call == Call("update_leverage", order.symbol,
                                     LeverageOf(PositionOf(future_account, order.symbol)))
                       IN  IF r # "ok"
                           THEN /\ calls' = Append(calls, call)
                                /\ Raise(MarginAdjustError(order.symbol,
                                      IF r = "err" THEN "Error switching to ISOLATED"
                                                   ELSE "Failed to set ISOLATED"))
                                /\ UNCHANGED idx
                           ELSE /\ calls' = calls \o << call, Call("sleep", None, 0) >>
                                /\ idx' = idx + 1
                                /\ UNCHANGED << pc, outcome >>
    /\ UNCHANGED << wrapperVars, envVars, dataVars, signer_client, subs >>

\* faulty variant: the opening batch is executed before the closing batch
ExecutionOrder_OpeningFirst == << "order2", "order1" >>

\* 9) the order in which execute_order runs the two batches
ExecutionOrder == << "order1", "order2" >>

\* faulty variant: the responses are inspected after each batch
AfterBatch_CheckEachBatch(p) == "check"

\* the position reached when the batch at position p has been executed
AfterBatch(p) ==
    IF p = ExecutionOrder[1] THEN ExecutionOrder[2] ELSE "check"

\* 7) one iteration of the loop of execute_leverage_orders; leaving the loop,
\* 8) the final orders are built
execute_leverage_orders ==
    /\ wpc = "run"
    /\ pc = "leverage"
    /\ IF idx > Len(order_summary)
       THEN /\ pc' = ExecutionOrder[1]
            /\ idx' = 0
            /\ final_order1' = BuildFinalOrder1(order_summary)
            /\ final_order2' = BuildFinalOrder2(order_summary)
            /\ UNCHANGED << outcome, calls >>
       ELSE LET order == order_summary[idx]
            IN  /\ UNCHANGED << final_order1, final_order2 >>
                /\ IF LeverageRaises(future_account, order.symbol)
                   THEN /\ Raise(MarginAdjustError(order.symbol, "ZeroDivisionError"))
                        /\ UNCHANGED << idx, calls >>
                   ELSE IF ~HasMarketId(order_books, order.symbol)
                   THEN /\ Raise(MarginAdjustError(order.symbol, "Market ID not found"))
                        /\ UNCHANGED << idx, calls >>
                   ELSE IF ~NeedsLeverageUpdate(order, future_account)
                   THEN /\ idx' = idx + 1
                        /\ UNCHANGED << pc, outcome, calls >>
                   ELSE \E r \in UpdateLeverageResults :
                          LET call == Call("update_leverage", order.symbol, order.leverage)
                          IN  IF r # "ok"
                              THEN /\ calls' = Append(calls, call)
                                   /\ Raise(MarginAdjustError(order.symbol,
                                         IF r = "err" THEN "Error updating leverage"
                                                      ELSE "Failed to update leverage"))
                                   /\ UNCHANGED idx
                              ELSE /\ calls' = calls \o << call, Call("sleep", None, 0) >>
                                   /\ idx' = idx + 1
                                   /\ UNCHANGED << pc, outcome >>
    /\ UNCHANGED << wrapperVars, envVars, future_market_price, order_books,
                    future_account, order_summary, signer_client, subs >>

\* faulty variant: an order without acknowledgement is skipped, the loop goes on
OnOrderResult_SkipNone(result) ==
    IF result = "raise" THEN "abort" ELSE "continue"

\* what the loop of execute_final_market_orders does once create_market_order
\* has answered with result: "abort" raises, "continue" goes on with the loop
OnOrderResult(result) ==
    IF result \in {"none", "raise"} THEN "abort" ELSE "continue"

\* one iteration of the loop of execute_final_market_orders(final_orders, ...)
\* running at position p; i = idx is the loop index
execute_final_market_orders(p, batch, reduce_only, final_orders) ==
    /\ wpc = "run"
    /\ pc = p
    /\ IF idx >= Len(final_orders)
       THEN /\ pc' = AfterBatch(p)
            /\ idx' = 0
            /\ UNCHANGED << outcome, calls, subs >>
       ELSE LET order == final_orders[idx + 1]
            IN  IF ~HasMarketId(order_books, order.symbol)
                THEN /\ Raise(HTTPException(400, "Market ID not found",
                                            order.symbol, "Market ID not found"))
                     /\ UNCHANGED << idx, calls, subs >>
                ELSE \E r \in CreateMarketOrderResults :
                       /\ subs' = Append(subs, MarketOrderCall(batch, reduce_only,
                                             final_orders, idx, order_books, r))
                       /\ IF OnOrderResult(r) = "abort"
                          THEN /\ calls' = Append(calls,
                                      Call("create_market_order", order.symbol, 0))
                               /\ Raise(HTTPException(500, "Failed to execute order",
                                      order.symbol,
                                      IF r = "none" THEN "Lighter SDK returned None"
                                                    ELSE "raise"))
                               /\ UNCHANGED idx
                          ELSE /\ calls' = calls \o
                                      << Call("create_market_order", order.symbol, 0) >> \o
                                      (IF idx + 1 < Len(final_orders)
                                       THEN << Call("sleep", None, 0) >> ELSE << >>)
                               /\ idx' = idx + 1
                               /\ UNCHANGED << pc, outcome >>
    /\ UNCHANGED << wrapperVars, envVars, dataVars, signer_client >>

\* order1_response = await execute_final_market_orders(final_order1, reduce_only=1)
execute_final_order1 ==
    execute_final_market_orders("order1", "A", 1, final_order1)

\* order2_response = await execute_final_market_orders(final_order2, reduce_only=0)
execute_final_order2 ==
    execute_final_market_orders("order2", "B", 0, final_order2)

\* 10) error check, await signer_client.close(), return
error_check_and_return ==
    /\ wpc = "run"
    /\ pc = "check"
    /\ IF HasError(subs)
       THEN /\ Raise(HTTPException(502, "One or more orders failed",
                                   None, "error code"))
            /\ UNCHANGED signer_client
       ELSE /\ signer_client' = "closed"
            /\ Return
    /\ UNCHANGED << wrapperVars, envVars, dataVars, calls, idx, subs >>

-----------------------------------------------------------------------------
(* alert_to_line_bot *)

Alert(kind, attempt) == [kind |-> kind, attempt |-> attempt]

\* TARGET_IDS = settings.TARGET_IDS.split(",")
TARGET_IDS == << "U1", "U2" >>

\* what one client.post(...) does: a 200 response, another status, an exception
PostResults == {"200", "status", "exception"}

\* one post result per recipient
DeliveryPatterns == [1..Len(TARGET_IDS) -> PostResults]

\* tasks = [client.post(...) for target_id in TARGET_IDS];
\* responses = await asyncio.gather(*tasks, return_exceptions=True)
DeliveryLog(d) ==
    [i \in 1..Len(TARGET_IDS) |-> [to |-> TARGET_IDS[i], response |-> d[i]]]

\* faulty variant: gather without return_exceptions, the exception of a push
\* leaves alert_to_line_bot
AlertRaises_OnException(log) ==
    \E i \in 1..Len(log) : log[i].response = "exception"

\* does alert_to_line_bot raise: with return_exceptions=True the exceptions of
\* the pushes are values of responses, printed by the loop over the responses
AlertRaises(log) == FALSE

-----------------------------------------------------------------------------
(* execute_order_with_retry *)

\* faulty variant: the loop gives up one attempt early
IsLastAttempt_OneEarly(count) == count = MAX_RETRIES - 2

\* if retry_count == MAX_RETRIES - 1
IsLastAttempt(count) == count = MAX_RETRIES - 1

\* the client_order_index values of the submissions of the run that just ended
UsedIndices(submissions) ==
    { submissions[i].client_order_index : i \in 1..Len(submissions) }

\* while retry_count < MAX_RETRIES: result = await execute_order(payload)
call_execute_order ==
    /\ wpc = "loop"
    /\ retry_count < MAX_RETRIES
    /\ wpc' = "run"
    /\ runs' = runs + 1
    /\ pc' = "secret"
    /\ FreshFrame
    /\ deliveries' = << >>
    /\ UNCHANGED << envVars, retry_count, alerts, returned, prior_indices >>

\* the exception that leaves alert_to_line_bot, as seen by the caller
AlertError ==
    [kind |-> "raise", status |-> "error", status_code |-> 500,
     detail |-> "alert_to_line_bot", cause |-> "alert_to_line_bot",
     account |-> payload.account, attempt |-> retry_count + 1]

\* the result of execute_order_with_retry on success
SuccessResult ==
    [kind |-> "return", status |-> "ok", status_code |-> 200,
     detail |-> None, cause |-> None,
     account |-> payload.account, attempt |-> retry_count + 1]

\* faulty variant: "Max retries reached" is sent with every failure alert
FailureAlerts_AlwaysMax(count) ==
    << Alert("failed", count + 1), Alert("max_retries", 0) >>

\* the alerts sent by an except branch at retry_count = count
FailureAlerts(count) ==
    IF IsLastAttempt(count)
    THEN << Alert("failed", count + 1), Alert("max_retries", 0) >>
    ELSE << Alert("failed", count + 1) >>

\* what an except branch leaves the caller with: at the last attempt the
\* exception raised, otherwise another turn of the loop after the wait
AfterFailure(raised) ==
    IF IsLastAttempt(retry_count)
    THEN /\ wpc' = "FAILED"
         /\ returned' = raised
         /\ UNCHANGED retry_count
    ELSE /\ wpc' = "loop"
         /\ retry_count' = retry_count + 1
         /\ UNCHANGED returned

\* one delivery pattern for each alert of an except branch at retry_count = count
FailureDeliveries(count) == [1..Len(FailureAlerts(count)) -> DeliveryPatterns]

\* the delivery logs of the alerts of an except branch at retry_count = count
DeliveryLogs(ds, count) ==
    [i \in 1..Len(FailureAlerts(count)) |-> DeliveryLog(ds[i])]

\* the alerts msgs are sent one after the other, logs[i] being the push requests
\* of msgs[i]; an alert that raises ends the handler with its exception,
\* otherwise the handler goes on as AfterFailure(raised) says
AfterAlerts(msgs, logs, raised) ==
    LET failing == { i \in 1..Len(msgs) : AlertRaises(logs[i]) }
        last    == IF failing = {} THEN Len(msgs)
                   ELSE CHOOSE i \in failing : \A j \in failing : i <= j
    IN  /\ alerts' = alerts \o SubSeq(msgs, 1, last)
        /\ deliveries' = SubSeq(logs, 1, last)
        /\ IF failing = {}
           THEN AfterFailure(raised)
           ELSE /\ wpc' = "FAILED"
                /\ returned' = AlertError
                /\ UNCHANGED retry_count

\* execute_order returned: success alert, return.  The alert is awaited inside
\* the try block, an exception leaving it is handled by except Exception.
on_success ==
    /\ wpc = "run"
    /\ pc = "done"
    /\ outcome.kind = "ok"
    /\ \E d \in DeliveryPatterns :
         IF AlertRaises(DeliveryLog(d))
         THEN \E ds \in FailureDeliveries(retry_count) :
                AfterAlerts(<< Alert("success", retry_count + 1) >>
                               \o FailureAlerts(retry_count),
                            << DeliveryLog(d) >> \o DeliveryLogs(ds, retry_count),
                            AlertError)
         ELSE /\ alerts' = Append(alerts, Alert("success", retry_count + 1))
              /\ deliveries' = << DeliveryLog(d) >>
              /\ returned' = SuccessResult
              /\ wpc' = "SUCCESS"
              /\ UNCHANGED retry_count
    /\ prior_indices' = prior_indices \cup UsedIndices(subs)
    /\ pc' = "idle"
    /\ FreshFrame
    /\ UNCHANGED << envVars, runs >>

\* except HTTPException as e: ... raise e
on_http_exception ==
    /\ wpc = "run"
    /\ pc = "done"
    /\ outcome.kind = "raised"
    /\ IsHTTPException(outcome.exc)
    /\ \E ds \in FailureDeliveries(retry_count) :
         AfterAlerts(FailureAlerts(retry_count), DeliveryLogs(ds, retry_count),
                    [kind |-> "raise", status |-> "error",
                     status_code |-> outcome.exc.status_code,
                     detail |-> outcome.exc.detail,
                     cause |-> outcome.exc.cause,
                     account |-> IF outcome.exc.detail = "One or more orders failed"
                                 THEN payload.account ELSE None,
                     attempt |-> 0])
    /\ prior_indices' = prior_indices \cup UsedIndices(subs)
    /\ pc' = "idle"
    /\ FreshFrame
    /\ UNCHANGED << envVars, runs >>

\* except Exception as e: ... raise HTTPException(status_code=500, detail=error_payload)
on_exception ==
    /\ wpc = "run"
    /\ pc = "done"
    /\ outcome.kind = "raised"
    /\ ~IsHTTPException(outcome.exc)
    /\ \E ds \in FailureDeliveries(retry_count) :
         AfterAlerts(FailureAlerts(retry_count), DeliveryLogs(ds, retry_count),
                    [kind |-> "raise", status |-> "error",
                     status_code |-> 500,
                     detail |-> outcome.exc.detail,
                     cause |-> outcome.exc.cause,
                     account |-> payload.account,
                     attempt |-> retry_count + 1])
    /\ prior_indices' = prior_indices \cup UsedIndices(subs)
    /\ pc' = "idle"
    /\ FreshFrame
    /\ UNCHANGED << envVars, runs >>

-----------------------------------------------------------------------------

Next ==
    \/ call_execute_order
    \/ initialize_aws_secret_manager_async
    \/ fetch_account_index
    \/ fetch_exchange_stats
    \/ fetch_order_books
    \/ fetch_account
    \/ execute_isolated_orders
    \/ execute_leverage_orders
    \/ execute_final_order1
    \/ execute_final_order2
    \/ error_check_and_return
    \/ on_success
    \/ on_http_exception
    \/ on_exception

Spec == Init /\ [][Next]_vars

-----------------------------------------------------------------------------
(* Two requests for the same account.  execute_order_with_retry is a         *)
(* coroutine of the event loop: while the request above is suspended at an   *)
(* await, a second POST /executeOrder for the same account runs the same     *)
(* code.  The second request is followed only through its gateway-mutating   *)
(* calls (update_leverage, create_market_order); nothing in the wrapper or   *)
(* in execute_order makes one request wait for the other.                    *)

\* the number of gateway mutations of the second request that are followed
MaxOtherCalls == 1

\* the gateway-mutating calls the current run has made so far
GatewayCalls ==
    SelectSeq(calls, LAMBDA c : c.fn \in {"update_leverage", "create_market_order"})

\* the second request reaches one of its gateway-mutating calls; the call is
\* stamped with the run of the first request and the number of gateway
\* mutations that run has made
other_request_gateway_call ==
    /\ Len(other_calls) < MaxOtherCalls
    /\ other_calls' = Append(other_calls, [run |-> runs, at |-> Len(GatewayCalls)])
    /\ UNCHANGED << secret_data_global, payload, quantization, wrapperVars,
                    dataVars, pc, outcome, calls, signer_client, idx, subs >>

ConcurrentInit ==
    /\ secret_data_global = "bound"
    /\ payload \in { r \in Requests : Len(r.order) = 1 /\ r.order[1].symbol = "BTC" }
    /\ quantization = NoQuantization
    /\ other_calls = << >>
    /\ AtEntry

ConcurrentNext ==
    \/ Next
    \/ other_request_gateway_call

ConcurrentSpec == ConcurrentInit /\ [][ConcurrentNext]_vars

-----------------------------------------------------------------------------
(* The quantization of step 8 on its own, on quantities finer than the ones  *)
(* of the runs above.  Quantities are integers in units of stepSize/FineStep,*)
(* one digit finer than the ROUND_DIGITS digits kept by the inner round().   *)

FineStep == 10 ^ (ROUND_DIGITS + 1)

\* how far below a multiple of stepSize the explored raw quantities go
MaxGap == 40

\* |coinAmount| of the explored Intents: near a multiple of stepSize, from
\* below and from above, and halfway between two multiples
RawQuantities ==
    { w * FineStep + r : w \in {0, 1},
                         r \in (0..5) \cup { FineStep \div 2 }
                                      \cup { FineStep - g : g \in 1..MaxGap } }

\* supported_size_decimals of the explored markets
SizeDecimals == 0..2

QuantizeInit ==
    /\ secret_data_global = "unbound"
    /\ payload = [account |-> "acct", order |-> << >>]
    /\ quantization = NoQuantization
    /\ other_calls = << >>
    /\ AtEntry

\* "quantity": round(math.floor(round(abs(r["coinAmount"]) / r["stepSize"], 8))
\*                   * r["stepSize"], r["sizeDecimals"])
quantize ==
    /\ \E raw \in RawQuantities, d \in SizeDecimals :
         quantization' = [raw |-> raw, stepSize |-> FineStep, sizeDecimals |-> d,
                          quantity |-> quantizeQuantity(raw, FineStep, d)]
    /\ UNCHANGED << secret_data_global, payload, other_calls, wrapperVars, dataVars,
                    pc, outcome, calls, signer_client, idx, subs >>

QuantizeNext == quantize

QuantizeSpec == QuantizeInit /\ [][QuantizeNext]_vars

-----------------------------------------------------------------------------
(* Properties *)

\* the submissions of batch b in the current run
BatchSubs(b) == SelectSeq(subs, LAMBDA c : c.batch = b)

\* create_market_order returned no acknowledgement or raised
SubmissionFailed(c) == c.result \in {"none", "raise"}

\* the Intent of order_summary for a symbol (requests hold one entry per symbol)
IntentFor(symbol) == FirstBySymbol(order_summary, symbol)

\* C1: in one run every Batch A submission precedes every Batch B submission,
\* Batch B starts only when all of Batch A has been submitted, and after a
\* failed Batch A submission no Batch B order is submitted.
C1_BatchABeforeBatchB ==
    /\ \A i, j \in 1..Len(subs) :
          i < j => ~(subs[i].batch = "B" /\ subs[j].batch = "A")
    /\ (\E j \in 1..Len(subs) : subs[j].batch = "B") =>
          /\ Len(BatchSubs("A")) = Len(final_order1)
          /\ \A i \in 1..Len(subs) :
                subs[i].batch = "A" => ~SubmissionFailed(subs[i])

\* C1 witness: a closing order was submitted and then an order of an adjusting
\* Intent with executeFirst = 1
C1_Witness ==
    \E i, j \in 1..Len(subs) :
        /\ i < j
        /\ subs[i].batch = "A"
        /\ subs[j].batch = "B"
        /\ IntentFor(subs[j].symbol).executeFirst = 1

\* C2 (as claimed): a request with sum |quantity| > 1 or a leverage > 5 ends its
\* run with the validation error, and no collaborator was called before it.
C2_ValidationBeforeCollaborators ==
    (pc = "done" /\ ValidationFailure(payload) # None) =>
        /\ outcome.exc.status_code = 400
        /\ outcome.exc.cause = "validation"
        /\ calls = << >>

AlertsOfSuccessAt(k) ==
    [i \in 1..k |-> IF i < k THEN Alert("failed", i) ELSE Alert("success", k)]

CollaboratorFailures ==
    {"secrets", "zero", "raise", "empty", "Error switching to ISOLATED",
     "Failed to set ISOLATED", "Error updating leverage",
     "Failed to update leverage", "Lighter SDK returned None", "error code"}

\* causes of a failed run that lie in the data the collaborators returned
DataFailures ==
    {"balance", "KeyError", "ZeroDivisionError", "AttributeError",
     "Market ID not found"}

\* C5 (as claimed): a first run on valid input, in which no collaborator failed
\* and the returned data are consistent, returns status "ok".
C5_HappyPathReturnsOk ==
    ( /\ pc = "done"
      /\ runs = 1
      /\ ValidationFailure(payload) = None
      /\ outcome.exc.cause \notin (CollaboratorFailures \cup DataFailures) )
    => outcome.kind = "ok"

\* C6 (as claimed): the client_order_index values of all submissions made for
\* one request are pairwise distinct, within a run and across runs.
C6_DistinctClientOrderIndex ==
    /\ \A i, j \in 1..Len(subs) :
          i < j => subs[i].client_order_index < subs[j].client_order_index
    /\ \A i \in 1..Len(subs) : subs[i].client_order_index \notin prior_indices

\* C7 (as claimed): every submitted market order has a quantity above zero.
C7_NoZeroQuantityOrder ==
    \A i \in 1..Len(subs) : subs[i].quantity > 0 /\ subs[i].base_amount > 0

\* C8 (as claimed): every Batch B submission comes from an Intent with
\* closePosition "N" and its submitted quantity q has q >= minOrderSize and
\* q * marketPrice >= minNotionalSize.
C8_BatchBClearsMinimums ==
    \A i \in 1..Len(subs) :
        subs[i].batch = "B" =>
            LET r == IntentFor(subs[i].symbol)
            IN  /\ r.closePosition = "N"
                /\ subs[i].quantity >= r.minOrderSize
                /\ subs[i].quantity * r.marketPrice >= r.minNotionalSize * Atom

\* open positions whose symbol has no target or a target of exactly zero
PositionsToClose ==
    { i \in 1..Len(future_account.positions) :
        LET p == future_account.positions[i]
        IN  /\ p.position # 0
            /\ \/ ~HasSymbol(payload.order, p.symbol)
               \/ FirstBySymbol(payload.order, p.symbol).quantity = 0 }

\* the indices of the elements of s for a symbol
IndicesFor(s, symbol) == { k \in 1..Len(s) : s[k].symbol = symbol }

C10_FailedSubmissionAborts ==
    \A i \in 1..Len(subs) :
        SubmissionFailed(subs[i]) =>
            /\ i = Len(subs)
            /\ pc = "done"
            /\ outcome.kind = "raised"
            /\ outcome.exc.status_code = 500
            /\ outcome.exc.detail = "Failed to execute order"
            /\ outcome.exc.symbol = subs[i].symbol

\* C10 witness: the first order of Batch A failed while more orders were due
C10_Witness ==
    /\ Len(subs) = 1
    /\ subs[1].batch = "A"
    /\ SubmissionFailed(subs[1])
    /\ Len(final_order1) + Len(final_order2) >= 2


\* every final order of the run was submitted and every call returned
AllSubmissionsReturned ==
    /\ pc \in {"check", "done"}
    /\ Len(subs) = Len(final_order1) + Len(final_order2)
    /\ \A i \in 1..Len(subs) : ~SubmissionFailed(subs[i])

\* C11: when every submission call has returned and some acknowledged order of
\* Batch A or Batch B carries a non-success code, the run does not return "ok"
\* but raises the batch error (502), and the wrapper handles it as a failed
\* attempt: one failure alert for it, no success.
C11_ErrorCodeFailsRun ==
    [][ (pc = "done" /\ wpc = "run" /\ AllSubmissionsReturned
         /\ \E i \in 1..Len(subs) : subs[i].result = "code")
        => /\ outcome.kind = "raised"
           /\ outcome.exc.status_code = 502
           /\ outcome.exc.detail = "One or more orders failed"
           /\ wpc' \in {"loop", "FAILED"}
           /\ Len(alerts') > Len(alerts)
           /\ alerts'[Len(alerts) + 1] = Alert("failed", retry_count + 1)
      ]_vars

\* C11 witness: the run failed on an error code carried by a Batch A order while
\* the Batch B order was acknowledged with success
C11_Witness ==
    /\ pc = "done"
    /\ outcome.exc.detail = "One or more orders failed"
    /\ \E i, j \in 1..Len(subs) :
          /\ subs[i].batch = "A" /\ subs[i].result = "code"
          /\ subs[j].batch = "B" /\ subs[j].result = "ok"


\* the causes of a failed update_leverage call: an explicit error or an exception,
\* in the isolated-mode pass or in the leverage pass
AdjustFailures ==
    {"Error switching to ISOLATED", "Failed to set ISOLATED",
     "Error updating leverage", "Failed to update leverage"}

\* the update_leverage calls of the current run
AdjustCalls == SelectSeq(calls, LAMBDA c : c.fn = "update_leverage")

\* C12: an Adjuster step whose update_leverage call fails (the call is made and
\* not followed by the pass going on) ends the run with the margin-adjust error
\* carrying the symbol of that call and the cause; after such an error no
\* further call is made and no market order is submitted in the run.
C12_AdjusterFailureAborts ==
    [][ /\ (pc \in {"isolated", "leverage"} /\ Len(calls') = Len(calls) + 1)
           => /\ calls'[Len(calls')].fn = "update_leverage"
              /\ pc' = "done"
              /\ outcome'.kind = "raised"
              /\ outcome'.exc.detail = "Error executing leverage/margin updates"
              /\ outcome'.exc.symbol = calls'[Len(calls')].symbol
              /\ outcome'.exc.symbol = order_summary[idx].symbol
              /\ outcome'.exc.cause \in AdjustFailures
              /\ subs' = << >>
        /\ (pc \in {"isolated", "leverage"} /\ pc' \notin {"isolated", "leverage"}
            /\ pc' # "done")
           => \A i \in 1..Len(calls) :
                 calls[i].fn = "update_leverage" =>
                    i < Len(calls) /\ calls[i + 1].fn = "sleep"
        /\ outcome.exc.cause \in AdjustFailures
           => /\ pc = "done"
              /\ subs = << >> /\ subs' = << >>
              /\ calls' = calls \/ calls' = << >>
      ]_vars

\* C12 witness: in a run with two Intents the second update_leverage call failed
\* with an explicit error
C12_Witness ==
    /\ pc = "done"
    /\ outcome.exc.cause \in {"Error switching to ISOLATED", "Error updating leverage"}
    /\ Len(AdjustCalls) = 2
    /\ Len(order_summary) = 2
    /\ outcome.exc.symbol = calls[Len(calls)].symbol


\* the Intents whose symbol has a position that is in isolated margin mode at
\* the leverage of the Intent
SettledIntents ==
    { k \in 1..Len(order_summary) :
        \E i \in 1..Len(future_account.positions) :
            LET p == future_account.positions[i]
            IN  /\ p.symbol = order_summary[k].symbol
                /\ p.margin_mode = ISOLATED_MARGIN_MODE
                /\ p.initial_margin_fraction > 0
                /\ 100 \div p.initial_margin_fraction = order_summary[k].leverage }

\* C13: for an Intent whose symbol has a position already in isolated mode at
\* the Intent's leverage, the run makes no update_leverage call for that symbol,
\* in the isolated-mode pass or in the leverage pass.
C13_AdjusterIdempotence ==
    \A k \in SettledIntents :
        \A i \in 1..Len(calls) :
            calls[i].fn = "update_leverage" => calls[i].symbol # order_summary[k].symbol

\* C13 witness: both passes are over, an adjusting Intent was already settled
\* and the other Intent of the run had its leverage set
C13_Witness ==
    /\ pc \in {"order1", "order2", "check"}
    /\ \E k \in SettledIntents : order_summary[k].closePosition = "N"
    /\ Len(AdjustCalls) >= 1


\* the planner has produced order_summary in the current run
Planned == pc \in {"isolated", "leverage", "order1", "order2", "check"}

\* C14 (as claimed): a target entry of fraction zero for a symbol without open
\* position leaves no Intent for that symbol in order_summary.
C14_ZeroTargetNoPositionNoIntent ==
    Planned =>
        \A i \in 1..Len(payload.order) :
            ( /\ payload.order[i].quantity = 0
              /\ \A j \in 1..Len(future_account.positions) :
                    \/ future_account.positions[j].symbol # payload.order[i].symbol
                    \/ future_account.positions[j].position = 0 )
            => ~HasSymbol(order_summary, payload.order[i].symbol)


\* the symbols the planner looks up in the order-book data: the symbols of the
\* open positions and of the request
LookedUpSymbols ==
    { future_account.positions[j].symbol :
        j \in { j \in 1..Len(future_account.positions) :
                  future_account.positions[j].position # 0 } }
    \cup { payload.order[i].symbol : i \in 1..Len(payload.order) }

\* C15 (as claimed): a run that got to look up a symbol absent from the order
\* books ends with the market-not-found error naming an absent symbol.
C15_MarketNotFound ==
    ( /\ pc = "done"
      /\ future_account.kind = "data"
      /\ TotalMarginBalance(future_account) # 0
      /\ outcome.exc.cause \notin {"KeyError", "ZeroDivisionError"}
      /\ \E s \in LookedUpSymbols : ~HasSymbol(order_books, s) )
    => /\ outcome.kind = "raised"
       /\ outcome.exc.cause = "Market ID not found"
       /\ ~HasSymbol(order_books, outcome.exc.symbol)


C17_QuantizeNeverExceedsRaw ==
    quantization.stepSize > 0 =>
        /\ quantization.quantity <= quantization.raw
        /\ quantization.quantity % quantization.stepSize = 0


\* the calls that change state at the gateway
GatewayMutations == {"update_leverage", "create_market_order"}

\* C18 (as claimed): between two successive gateway-mutating calls of a run
\* there is a delay, also between the last order of Batch A and the first
\* order of Batch B.
C18_DelayBetweenGatewayCalls ==
    \A i \in 1..(Len(calls) - 1) :
        ~(calls[i].fn \in GatewayMutations /\ calls[i + 1].fn \in GatewayMutations)


\* C19 (as claimed): the gateway-mutating calls of two concurrent requests for
\* one account do not interleave: no call of the second request falls between
\* two gateway-mutating calls of a run of the first.
C19_SerializedPerAccount ==
    \A k \in 1..Len(other_calls) :
        ~( /\ other_calls[k].run = runs
           /\ other_calls[k].at >= 1
           /\ Len(GatewayCalls) > other_calls[k].at )


\* C20 (as claimed): every Batch A order reaches the gateway as a reduce-only
\* order and no Batch B order does.
C20_ReduceOnlyReachesGateway ==
    \A i \in 1..Len(subs) :
        /\ subs[i].batch = "A" => subs[i].reduce_only = "true"
        /\ subs[i].batch = "B" => subs[i].reduce_only # "true"


\* the open position of a symbol in the account snapshot, if there is one
HasOpenPosition(symbol) ==
    \E j \in 1..Len(future_account.positions) :
        /\ future_account.positions[j].symbol = symbol
        /\ future_account.positions[j].position # 0

\* |current coin exposure| > |target coin exposure| for an adjusted position:
\* |position| > |fraction| * margin balance * leverage / price
ReducesExposure(symbol) ==
    /\ HasOpenPosition(symbol)
    /\ HasSymbol(payload.order, symbol)
    /\ LET p  == FirstBySymbol(future_account.positions, symbol)
           np == FirstBySymbol(payload.order, symbol)
       IN  /\ np.quantity # 0
           /\ p.position * QDen * future_market_price[symbol]
                > Abs(np.quantity) * ((future_account.total_asset_value * 98) \div 100)
                    * np.leverage * Atom

\* the place of a symbol's Intent in the Planner's list: the open positions in
\* the order of the account snapshot, then the new symbols in request order
PlannerRank(symbol) ==
    IF HasOpenPosition(symbol)
    THEN CHOOSE j \in 1..Len(future_account.positions) :
            future_account.positions[j].symbol = symbol
    ELSE Len(future_account.positions)
         + (CHOOSE i \in 1..Len(payload.order) : payload.order[i].symbol = symbol)

\* C21: an Intent has executeFirst = 1 exactly when it adjusts a position whose
\* |current coin exposure| exceeds the |target coin exposure|; within a batch
\* the orders of such Intents are submitted before the others, and orders of
\* equal priority are submitted in the order of the Planner's list.
C21_PriorityThenPlannerOrder ==
    /\ Planned =>
          \A k \in 1..Len(order_summary) :
              order_summary[k].executeFirst
                 = (IF ReducesExposure(order_summary[k].symbol) THEN 1 ELSE 0)
    /\ \A i, j \in 1..Len(subs) :
          (i < j /\ subs[i].batch = subs[j].batch) =>
              LET a == subs[i].symbol
                  b == subs[j].symbol
              IN  /\ ReducesExposure(b) => ReducesExposure(a)
                  /\ (ReducesExposure(a) = ReducesExposure(b))
                        => PlannerRank(a) < PlannerRank(b)

\* C21 witness: Batch B submitted the order of a priority Intent before the
\* order of an Intent that stands before it in the Planner's list
C21_Witness ==
    \E i, j \in 1..Len(subs) :
        /\ i < j
        /\ subs[i].batch = "B" /\ subs[j].batch = "B"
        /\ ReducesExposure(subs[i].symbol)
        /\ ~ReducesExposure(subs[j].symbol)
        /\ PlannerRank(subs[j].symbol) < PlannerRank(subs[i].symbol)


\* C22 (as claimed): after the final failed attempt the error raised to the
\* caller carries the account and the attempt number, and a validation error
\* is surfaced with a status other than that of an execution error.
C22_FinalErrorPayload ==
    wpc = "FAILED" =>
        /\ returned.kind = "raise"
        /\ returned.account = payload.account
        /\ returned.attempt = MAX_RETRIES
        /\ (returned.cause = "validation" => returned.status_code = 400)
        /\ (returned.detail \in { "Error executing leverage/margin updates",
                                  "Failed to execute order",
                                  "One or more orders failed" }
               => returned.status_code >= 500)


\* C23 (as claimed): a run that has constructed a signer session has closed
\* it when the run ends, whether it returns or raises.
C23_SignerClosedAtExit ==
    (outcome.kind # "running" /\ signer_client # "none") =>
        signer_client = "closed"


\* the positions of the account snapshot with initial_margin_fraction zero
\* that are open or matched by an Intent of the request
ZeroMarginPositions ==
    { j \in 1..Len(future_account.positions) :
        /\ future_account.positions[j].initial_margin_fraction = 0
        /\ \/ future_account.positions[j].position # 0
           \/ HasSymbol(payload.order, future_account.positions[j].symbol) }

\* C24 (as claimed): a run whose account snapshot has such a position ends
\* with an error other than an escaped or rewrapped division by zero, and
\* without having made a gateway mutation call.
C24_ZeroMarginFractionGuarded ==
    (outcome.kind # "running" /\ ZeroMarginPositions # {}) =>
        /\ outcome.kind = "raised"
        /\ outcome.exc.cause # "ZeroDivisionError"
        /\ \A i \in 1..Len(calls) : calls[i].fn \notin GatewayMutations


\* C25: the responses are inspected once, after both batches. The step that
\* records a non-success acknowledgement leaves the run going; the batch
\* error is raised only from the error check, when every order of Batch A and
\* of Batch B has been submitted; and a run holding such an acknowledgement
\* ends either on that error or on a later submission that failed outright.
C25_InspectionAfterBothBatches ==
    [][ /\ ( /\ Len(subs') = Len(subs) + 1
             /\ subs'[Len(subs')].result = "code" )
           => /\ pc' = pc
              /\ outcome' = outcome
              /\ idx' = idx + 1
        /\ ( /\ outcome'.kind = "raised"
             /\ outcome'.exc.detail = "One or more orders failed" )
           => /\ Len(BatchSubs("A")') = Len(final_order1')
              /\ Len(BatchSubs("B")') = Len(final_order2')
              /\ (outcome.kind = "running" => pc = "check")
        /\ ( /\ pc' = "done"
             /\ \E i \in 1..Len(subs') : subs'[i].result = "code" )
           => \/ SubmissionFailed(subs'[Len(subs')])
              \/ /\ outcome'.kind = "raised"
                 /\ outcome'.exc.detail = "One or more orders failed"
      ]_vars

\* C25 witness: the first submission of the run, a Batch A order, was
\* acknowledged with an error code; the two Batch B orders were submitted
\* after it and the run then ended on the batch error
C25_Witness ==
    /\ pc = "done"
    /\ outcome.exc.detail = "One or more orders failed"
    /\ subs[1].batch = "A"
    /\ subs[1].result = "code"
    /\ Len(BatchSubs("B")) = Len(final_order2)
    /\ Len(final_order2) >= 1

====
